---- MODULE Spec2Model ----
(***************************************************************************)
(* ShowBay task-management service: the task handlers of api/tasks.py, the *)
(* request schemas of schemas/task.py, the Task table of models/task.py,   *)
(* the enrichment client of utils/external_api.py and the exception        *)
(* handlers of utils/exception_handlers.py.                                *)
(*                                                                         *)
(* Python values: None is the empty tuple <<>>, any other value v is the   *)
(* one-element tuple <<v>>.  A request body is a function whose DOMAIN is  *)
(* the set of fields the client sent (pydantic's "fields set"), so a field *)
(* that is absent differs from a field that is present with value null.    *)
(***************************************************************************)
EXTENDS Integers, Sequences, FiniteSets, TLC

VARIABLES
    store,      \* the task table: id -> row (DOMAIN store is the set of stored ids)
    next_id,    \* the next value of the table's id sequence
    now,        \* the last reading of the clock (datetime.utcnow)
    resp,       \* the last call and the answer it got
    deleted,    \* history: ids whose delete was answered 204
    created,    \* history: id -> the body create_task was sent and the task it
                \* answered, for the tasks not updated or deleted since
    before,     \* history: the task table as the last call found it
    pending,    \* the list request whose count query has run and whose page query
                \* has not: its query and the total it counted, or None
    listed      \* history: the list call answered just before the last list call,
                \* kept by the calls that repeat or continue a listing

vars == <<store, next_id, now, resp, deleted, created, before, pending, listed>>

---------------------------------------------------------------------------
(* Bounds of the model *)

MaxTasks == 2       \* tasks ever created (values the id sequence hands out)
MaxClock == 1       \* largest clock reading
MaxSkip == 12       \* largest skip of the paging queries

---------------------------------------------------------------------------
(* Program constants *)

TitleMinLength == 1
TitleMaxLength == 255
DescriptionMaxLength == 1000
StatusMaxLength == 50
PriorityMaxLength == 20
UserIdMaxLength == 100

SkipMin == 0
LimitMin == 1
LimitMax == 100

HTTP_200_OK == 200
HTTP_201_CREATED == 201
HTTP_204_NO_CONTENT == 204
HTTP_404_NOT_FOUND == 404
HTTP_422_UNPROCESSABLE_ENTITY == 422
HTTP_500_INTERNAL_SERVER_ERROR == 500
HTTP_502_BAD_GATEWAY == 502

---------------------------------------------------------------------------
(* Python values *)

None == <<>>
Some(v) == <<v>>
Val(o) == o[1]

\* bool(x) of an Optional[int]: None and 0 are falsy
Truthy(o) == o # None /\ Val(o) # 0

\* bool(x) of an Optional[str]: None and "" are falsy
TruthyStr(o) == o # None /\ Val(o) # ""

RECURSIVE Rep(_, _)
\* the string s repeated n times
Rep(s, n) ==
    IF n = 0 THEN ""
    ELSE IF n = 1 THEN s
    ELSE Rep(s, n \div 2) \o Rep(s, n - (n \div 2))

---------------------------------------------------------------------------
(* Request validation: schemas/task.py *)

\* violations of a str field constrained by min_length / max_length
StrErrors(body, f, required, nullable, lo, hi) ==
    IF f \notin DOMAIN body
    THEN (IF required THEN {<<f, "missing">>} ELSE {})
    ELSE IF body[f] = None
    THEN (IF nullable THEN {} ELSE {<<f, "string_type">>})
    ELSE IF Len(Val(body[f])) < lo THEN {<<f, "string_too_short">>}
    ELSE IF Len(Val(body[f])) > hi THEN {<<f, "string_too_long">>}
    ELSE {}

\* the create schema with the title's max_length twice as large
TaskCreateErrorsTitleMaxDoubled(body) ==
    StrErrors(body, "title", TRUE, FALSE, TitleMinLength, TitleMaxLength + TitleMaxLength)
    \cup StrErrors(body, "description", FALSE, TRUE, 0, DescriptionMaxLength)
    \cup StrErrors(body, "status", FALSE, FALSE, 0, StatusMaxLength)
    \cup StrErrors(body, "priority", FALSE, FALSE, 0, PriorityMaxLength)
    \cup StrErrors(body, "user_id", FALSE, TRUE, 0, UserIdMaxLength)

\* TaskCreate(TaskBase): every violated constraint of a create body
TaskCreateErrors(body) ==
    StrErrors(body, "title", TRUE, FALSE, TitleMinLength, TitleMaxLength)
    \cup StrErrors(body, "description", FALSE, TRUE, 0, DescriptionMaxLength)
    \cup StrErrors(body, "status", FALSE, FALSE, 0, StatusMaxLength)
    \cup StrErrors(body, "priority", FALSE, FALSE, 0, PriorityMaxLength)
    \cup StrErrors(body, "user_id", FALSE, TRUE, 0, UserIdMaxLength)

\* TaskUpdate: every field is Optional with default None
TaskUpdateErrors(body) ==
    StrErrors(body, "title", FALSE, TRUE, TitleMinLength, TitleMaxLength)
    \cup StrErrors(body, "description", FALSE, TRUE, 0, DescriptionMaxLength)
    \cup StrErrors(body, "status", FALSE, TRUE, 0, StatusMaxLength)
    \cup StrErrors(body, "priority", FALSE, TRUE, 0, PriorityMaxLength)
    \cup StrErrors(body, "user_id", FALSE, TRUE, 0, UserIdMaxLength)

\* the fields of the two request schemas
TaskCreateFields == {"title", "description", "status", "priority", "user_id", "external_id"}
TaskUpdateFields == {"title", "description", "status", "priority", "user_id"}

\* the validated TaskCreate object: defaults filled in for the fields not sent
TaskCreateSchema(body) ==
    [f \in TaskCreateFields |->
        IF f \in DOMAIN body THEN body[f]
        ELSE IF f = "status" THEN Some("pending")
        ELSE IF f = "priority" THEN Some("medium")
        ELSE None]

\* task_data.model_dump(exclude_unset=True): only the fields the client sent
model_dump_exclude_unset(body) ==
    [f \in (DOMAIN body) \cap TaskUpdateFields |-> body[f]]

\* the handler with the loop over exc.errors() left after its first round
validation_exception_handler_first_error(errors) ==
    [status_code |-> HTTP_422_UNPROCESSABLE_ENTITY,
     detail |-> {CHOOSE e \in errors : TRUE},
     error_code |-> "VALIDATION_ERROR"]

\* validation_exception_handler: 422 with every error and VALIDATION_ERROR
validation_exception_handler(errors) ==
    [status_code |-> HTTP_422_UNPROCESSABLE_ENTITY,
     detail |-> errors,
     error_code |-> "VALIDATION_ERROR"]

---------------------------------------------------------------------------
(* The enrichment client: utils/external_api.py *)

\* what the upstream resource does with one request
UpstreamStatuses == {200, 301, 400, 404, 408, 500, 503}

Payloads == {[id |-> 1, title |-> "Test Post"], [id |-> 2, title |-> "Other"]}

Upstreams ==
    [kind : {"response"}, status_code : UpstreamStatuses, json : {None} \cup {Some(p) : p \in Payloads},
     exc : {"-"}]
    \cup [kind : {"raise"}, status_code : {0}, json : {None},
          exc : {"ReadTimeout", "ConnectTimeout", "ConnectError", "InvalidURL"}]

\* the answers tried on the request that create_task makes
CreateUpstreams ==
    {u \in Upstreams :
        \/ u.kind = "response" /\ u.status_code \in {200, 404, 503}
                               /\ (u.status_code # 200 => u.json = None)
        \/ u.kind = "raise" /\ u.exc \in {"ReadTimeout", "ConnectError", "InvalidURL"}}

\* no request reaches the upstream resource
NoRequest == [kind |-> "none", status_code |-> 0, json |-> None, exc |-> "-"]

\* the base class of each exception class that can be raised in the client
Base(cls) ==
    CASE cls = "ReadTimeout" -> "TimeoutException"
      [] cls = "ConnectTimeout" -> "TimeoutException"
      [] cls = "TimeoutException" -> "TransportError"
      [] cls = "ConnectError" -> "TransportError"
      [] cls = "TransportError" -> "RequestError"
      [] cls = "RequestError" -> "Exception"
      [] cls = "InvalidURL" -> "Exception"
      [] cls = "JSONDecodeError" -> "Exception"
      [] cls = "ExternalAPIException" -> "Exception"
      [] cls = "TypeError" -> "Exception"
      [] OTHER -> "BaseException"

RECURSIVE IsSubclass(_, _)
\* issubclass(cls, of): what an except clause tests
IsSubclass(cls, of) ==
    IF cls = of THEN TRUE
    ELSE IF cls = "BaseException" THEN FALSE
    ELSE IsSubclass(Base(cls), of)

\* outcomes of a Python call: a returned value or a raised exception
Return(v) == [raised |-> FALSE, value |-> Some(v), cls |-> "-", status_code |-> None]
Raise(cls) == [raised |-> TRUE, value |-> None, cls |-> cls, status_code |-> None]

\* raise ExternalAPIException(message, status_code=code)
ExternalAPIException(code) ==
    [raised |-> TRUE, value |-> None, cls |-> "ExternalAPIException", status_code |-> code]

\* response.json(): the parsed body, or JSONDecodeError when it is no JSON
ResponseJson(upstream) ==
    IF upstream.json = None THEN Raise("JSONDecodeError") ELSE Return(Val(upstream.json))

\* the except clauses with RequestError tested before TimeoutException
ExceptClausesReordered(r) ==
    IF ~r.raised THEN r
    ELSE IF IsSubclass(r.cls, "RequestError") THEN ExternalAPIException(Some(502))
    ELSE IF IsSubclass(r.cls, "TimeoutException") THEN ExternalAPIException(Some(408))
    ELSE IF IsSubclass(r.cls, "Exception") THEN ExternalAPIException(Some(500))
    ELSE r

\* the three except clauses that close each client function, in source order
ExceptClauses(r) ==
    IF ~r.raised THEN r
    ELSE IF IsSubclass(r.cls, "TimeoutException") THEN ExternalAPIException(Some(408))
    ELSE IF IsSubclass(r.cls, "RequestError") THEN ExternalAPIException(Some(502))
    ELSE IF IsSubclass(r.cls, "Exception") THEN ExternalAPIException(Some(500))
    ELSE r

\* fetch_external_data: GET /posts/{external_id}
fetch_external_data(external_id, upstream) ==
    ExceptClauses(
        IF upstream.kind = "raise" THEN Raise(upstream.exc)
        ELSE IF upstream.status_code = 404 THEN ExternalAPIException(Some(404))
        ELSE IF upstream.status_code >= 400 THEN ExternalAPIException(Some(upstream.status_code))
        ELSE ResponseJson(upstream))

\* create_external_resource: POST /posts
create_external_resource(upstream) ==
    ExceptClauses(
        IF upstream.kind = "raise" THEN Raise(upstream.exc)
        ELSE IF upstream.status_code >= 400 THEN ExternalAPIException(Some(upstream.status_code))
        ELSE ResponseJson(upstream))

\* fetch_external_data_list: GET /posts?_limit=N
fetch_external_data_list(upstream) ==
    ExceptClauses(
        IF upstream.kind = "raise" THEN Raise(upstream.exc)
        ELSE IF upstream.status_code >= 400 THEN ExternalAPIException(Some(upstream.status_code))
        ELSE ResponseJson(upstream))

\* str(external_data) of a payload dict
PyStr(p) == "{'id': " \o ToString(p.id) \o ", 'title': '" \o p.title \o "'}"

---------------------------------------------------------------------------
(* The Task table: models/task.py *)

TaskColumns ==
    {"id", "title", "description", "status", "priority", "external_api_data",
     "external_id", "user_id", "created_at", "updated_at", "completed_at"}

\* model_validate over a schema that has no external_id
Task_model_validate_no_external_id(task_data, created_at, updated_at) ==
    [id |-> None,
     title |-> task_data.title,
     description |-> task_data.description,
     status |-> task_data.status,
     priority |-> task_data.priority,
     external_api_data |-> None,
     external_id |-> None,
     user_id |-> task_data.user_id,
     created_at |-> created_at,
     updated_at |-> updated_at,
     completed_at |-> None]

\* the table with the two timestamp columns taking each other's clock reading
Task_model_validate_stamps_swapped(task_data, created_at, updated_at) ==
    [id |-> None,
     title |-> task_data.title,
     description |-> task_data.description,
     status |-> task_data.status,
     priority |-> task_data.priority,
     external_api_data |-> None,
     external_id |-> task_data.external_id,
     user_id |-> task_data.user_id,
     created_at |-> updated_at,
     updated_at |-> created_at,
     completed_at |-> None]

\* Task.model_validate(task_data): the schema's fields are copied, id and
\* external_api_data take their default None, and the two default_factory
\* calls of datetime.utcnow read the clock one after the other
Task_model_validate(task_data, created_at, updated_at) ==
    [id |-> None,
     title |-> task_data.title,
     description |-> task_data.description,
     status |-> task_data.status,
     priority |-> task_data.priority,
     external_api_data |-> None,
     external_id |-> task_data.external_id,
     user_id |-> task_data.user_id,
     created_at |-> created_at,
     updated_at |-> updated_at,
     completed_at |-> None]

\* TaskResponse(id=..., title=..., ...): the response model has no external_api_data
TaskResponse(task) ==
    [id |-> task.id,
     title |-> task.title,
     description |-> task.description,
     status |-> task.status,
     priority |-> task.priority,
     external_id |-> task.external_id,
     user_id |-> task.user_id,
     created_at |-> task.created_at,
     updated_at |-> task.updated_at,
     completed_at |-> task.completed_at]

\* session.get(Task, task_id): the row, or None
session_get(task_id) ==
    IF task_id \in DOMAIN store THEN Some(store[task_id]) ELSE None

\* a session that commits what it holds when its with block is left
get_session_exit_commit(table, dirty) ==
    IF dirty = None THEN table
    ELSE [table EXCEPT ![Val(dirty).task_id] = Val(dirty).row]

\* get_session: the with block of the request's session is left when the
\* request ends, the session is closed and what it holds uncommitted (dirty:
\* the row the handler has assigned to, or None) is rolled back
get_session_exit(table, dirty) == table

\* an id taken as the largest stored id plus one
AssignIdMaxPlusOne ==
    IF DOMAIN store = {} THEN 1
    ELSE (CHOOSE i \in DOMAIN store : \A j \in DOMAIN store : j <= i) + 1

\* an id taken as the largest stored id
AssignIdLargestStored ==
    IF DOMAIN store = {} THEN 1
    ELSE CHOOSE i \in DOMAIN store : \A j \in DOMAIN store : j <= i

\* the id the table's sequence gives a new row at commit
AssignId == next_id

\* the columns declared without Optional are NOT NULL
NotNullOk(task) ==
    task.title # None /\ task.status # None /\ task.priority # None

---------------------------------------------------------------------------
(* Inputs of the model *)

Title255 == Rep("t", TitleMaxLength)
Title256 == Rep("t", TitleMaxLength + 1)
Status51 == Rep("s", StatusMaxLength + 1)
Description1001 == Rep("d", DescriptionMaxLength + 1)
UserId101 == Rep("u", UserIdMaxLength + 1)

ValidCreateBodies ==
    { [title |-> Some("a")],
      [title |-> Some(Title255), description |-> Some("d"), status |-> Some("completed"),
       priority |-> Some("high"), user_id |-> Some("u1"), external_id |-> Some(1)],
      [title |-> Some("b"), description |-> None, user_id |-> None, external_id |-> Some(0)] }

InvalidCreateBodies ==
    { [title |-> Some("")],
      [title |-> Some(Title256)],
      [status |-> Some("pending"), external_id |-> Some(1)],
      [title |-> Some(""), status |-> Some(Status51), external_id |-> Some(1)],
      [description |-> Some(Description1001), priority |-> None, user_id |-> Some(UserId101)] }

CreateBodies == ValidCreateBodies \cup InvalidCreateBodies

ValidUpdateBodies ==
    { [status |-> Some("completed")],
      [title |-> Some("c"), priority |-> Some("low")],
      [id |-> Some(9), external_id |-> Some(7), description |-> None],
      << >> }

InvalidUpdateBodies ==
    { [title |-> Some(""), status |-> Some("completed")] }

UpdateBodies == ValidUpdateBodies \cup InvalidUpdateBodies

TaskIds == 1..(MaxTasks + 1)

ListQueries ==
    { [skip |-> 0, limit |-> 10, status_filter |-> None, priority_filter |-> None],
      [skip |-> 1, limit |-> 1, status_filter |-> None, priority_filter |-> None],
      [skip |-> 0, limit |-> 10, status_filter |-> Some("pending"), priority_filter |-> None],
      [skip |-> 0, limit |-> 1, status_filter |-> Some("completed"), priority_filter |-> Some("high")],
      [skip |-> 0, limit |-> 10, status_filter |-> Some(""), priority_filter |-> Some("high")],
      [skip |-> 0 - 1, limit |-> 101, status_filter |-> Some(""), priority_filter |-> None] }

ExternalIds == {0, 1, 99999}

\* the limits of the paging queries: the ends of [1, 100], values between them
\* and the two values next to the ends
PageLimits == {LimitMin - 1, LimitMin, 2, 3, 5, 10, LimitMax, LimitMax + 1}

\* the paging queries: every skip from SkipMin - 1 to MaxSkip with every limit
PageQueries ==
    {[skip |-> skip, limit |-> limit, status_filter |-> None, priority_filter |-> None] :
        skip \in (SkipMin - 1)..MaxSkip, limit \in PageLimits}

---------------------------------------------------------------------------
(* The handlers of api/tasks.py *)

\* the clause written as: except httpx.RequestError
CaughtAsWarningRequestError(r) == r.raised /\ IsSubclass(r.cls, "RequestError")

\* except ExternalAPIException as e: logger.warning(...)
CaughtAsWarning(r) == r.raised /\ IsSubclass(r.cls, "ExternalAPIException")

\* if db_task.external_id: the enrichment client is called
EnrichmentWanted(db_task) == Truthy(db_task.external_id)

\* POST /tasks/ : the clock has advanced by wait since its last reading when
\* created_at reads it, and by tick more when updated_at reads it
create_task(body, upstream) ==
    /\ next_id <= MaxTasks
    /\ IF TaskCreateErrors(body) # {}
       THEN /\ resp' = [op |-> "create_task", request |-> body, enrich |-> None,
                        answer |-> validation_exception_handler(TaskCreateErrors(body))]
            /\ before' = store /\ listed' = None /\ UNCHANGED pending
            /\ UNCHANGED <<store, next_id, now, deleted, created>>
       ELSE \E wait \in 0..1, tick \in 0..1 :
            /\ now + wait + tick <= MaxClock
            /\ LET db_task == Task_model_validate(TaskCreateSchema(body),
                                                  now + wait, now + wait + tick)
                   called == EnrichmentWanted(db_task)
                   fetched == fetch_external_data(Val(db_task.external_id), upstream)
                   enriched ==
                       IF called /\ ~fetched.raised
                       THEN [db_task EXCEPT !.external_api_data = Some(PyStr(Val(fetched.value)))]
                       ELSE db_task
                   row == [enriched EXCEPT !.id = Some(AssignId)]
                   enrich == IF called THEN Some([external_id |-> Val(db_task.external_id),
                                                  result |-> fetched])
                             ELSE None
               IN  IF called /\ fetched.raised /\ ~CaughtAsWarning(fetched)
                   THEN /\ resp' = [op |-> "create_task", request |-> body, enrich |-> enrich,
                                    answer |-> [status_code |-> HTTP_500_INTERNAL_SERVER_ERROR,
                                                detail |-> "An error occurred while creating the task"]]
                        /\ now' = now + wait + tick
                        /\ UNCHANGED <<store, next_id, deleted, created>>
                        /\ before' = store /\ listed' = None /\ UNCHANGED pending
                   ELSE /\ store' = [i \in DOMAIN store \cup {AssignId} |->
                                        IF i = AssignId THEN row ELSE store[i]]
                        /\ next_id' = next_id + 1
                        /\ now' = now + wait + tick
                        /\ resp' = [op |-> "create_task", request |-> body, enrich |-> enrich,
                                    answer |-> [status_code |-> HTTP_201_CREATED,
                                                body |-> TaskResponse(row)]]
                        /\ created' = [i \in DOMAIN created \cup {AssignId} |->
                                          IF i = AssignId
                                          THEN [request |-> body, body |-> TaskResponse(row)]
                                          ELSE created[i]]
                        /\ UNCHANGED deleted
                        /\ before' = store /\ listed' = None /\ UNCHANGED pending

\* f"Task with ID {task_id} not found"
NotFoundDetail(task_id) == "Task with ID " \o ToString(task_id) \o " not found"

\* GET /tasks/{task_id}
get_task(task_id) ==
    /\ resp' = [op |-> "get_task", task_id |-> task_id,
                answer |-> IF session_get(task_id) = None
                           THEN [status_code |-> HTTP_404_NOT_FOUND, detail |-> NotFoundDetail(task_id)]
                           ELSE [status_code |-> HTTP_200_OK,
                                 body |-> TaskResponse(Val(session_get(task_id)))]]
    /\ before' = store /\ listed' = None /\ UNCHANGED pending
    /\ UNCHANGED <<store, next_id, now, deleted, created>>

\* db_task.updated_at.__class__(): datetime() called without arguments
updated_at_class_call == Raise("TypeError")

\* for field, value in update_data.items(): setattr(db_task, field, value)
setattr_all(db_task, update_data) ==
    [c \in DOMAIN db_task |-> IF c \in DOMAIN update_data THEN update_data[c] ELSE db_task[c]]

\* the handler with the timestamp line reading the clock and the body dumped
\* by model_dump() without exclude_unset, so that unset fields come as None
update_task_dump_all(task_id, body) ==
    IF TaskUpdateErrors(body) # {}
    THEN /\ resp' = [op |-> "update_task", task_id |-> task_id, request |-> body,
                     answer |-> validation_exception_handler(TaskUpdateErrors(body))]
         /\ before' = store /\ listed' = None /\ UNCHANGED pending
         /\ UNCHANGED <<store, next_id, now, deleted, created>>
    ELSE IF session_get(task_id) = None
    THEN /\ resp' = [op |-> "update_task", task_id |-> task_id, request |-> body,
                     answer |-> [status_code |-> HTTP_404_NOT_FOUND, detail |-> NotFoundDetail(task_id)]]
         /\ before' = store /\ listed' = None /\ UNCHANGED pending
         /\ UNCHANGED <<store, next_id, now, deleted, created>>
    ELSE LET dump == [f \in TaskUpdateFields |-> IF f \in DOMAIN body THEN body[f] ELSE None]
             db_task == [setattr_all(Val(session_get(task_id)), dump) EXCEPT !.updated_at = now]
         IN  /\ store' = [store EXCEPT ![task_id] = db_task]
             /\ resp' = [op |-> "update_task", task_id |-> task_id, request |-> body,
                         answer |-> [status_code |-> HTTP_200_OK, body |-> TaskResponse(db_task)]]
             /\ created' = [i \in DOMAIN created \ {task_id} |-> created[i]]
             /\ UNCHANGED <<next_id, now, deleted>>
             /\ before' = store /\ listed' = None /\ UNCHANGED pending

\* PUT /tasks/{task_id}: the fields of the payload are assigned to the row the
\* session loaded; a request that fails before session.commit() leaves the
\* assigned row to the exit of get_session
update_task(task_id, body) ==
    IF TaskUpdateErrors(body) # {}
    THEN /\ resp' = [op |-> "update_task", task_id |-> task_id, request |-> body,
                     answer |-> validation_exception_handler(TaskUpdateErrors(body))]
         /\ before' = store /\ listed' = None /\ UNCHANGED pending
         /\ UNCHANGED <<store, next_id, now, deleted, created>>
    ELSE IF session_get(task_id) = None
    THEN /\ resp' = [op |-> "update_task", task_id |-> task_id, request |-> body,
                     answer |-> [status_code |-> HTTP_404_NOT_FOUND, detail |-> NotFoundDetail(task_id)]]
         /\ store' = get_session_exit(store, None)
         /\ before' = store /\ listed' = None /\ UNCHANGED pending
         /\ UNCHANGED <<next_id, now, deleted, created>>
    ELSE LET patched == setattr_all(Val(session_get(task_id)), model_dump_exclude_unset(body))
             stamp == updated_at_class_call
             db_task == [patched EXCEPT !.updated_at = Val(stamp.value)]
         IN  IF stamp.raised \/ ~NotNullOk(patched)
             THEN /\ resp' = [op |-> "update_task", task_id |-> task_id, request |-> body,
                              answer |-> [status_code |-> HTTP_500_INTERNAL_SERVER_ERROR,
                                          detail |-> "An error occurred while updating the task"]]
                  /\ store' = get_session_exit(store, Some([task_id |-> task_id, row |-> patched]))
                  /\ before' = store /\ listed' = None /\ UNCHANGED pending
                  /\ UNCHANGED <<next_id, now, deleted, created>>
             ELSE /\ store' = [store EXCEPT ![task_id] = db_task]
                  /\ resp' = [op |-> "update_task", task_id |-> task_id, request |-> body,
                              answer |-> [status_code |-> HTTP_200_OK, body |-> TaskResponse(db_task)]]
                  /\ created' = [i \in DOMAIN created \ {task_id} |-> created[i]]
                  /\ UNCHANGED <<next_id, now, deleted>>
                  /\ before' = store /\ listed' = None /\ UNCHANGED pending

\* the handler without the test of the row it loaded
delete_task_unchecked(task_id) ==
    /\ store' = [i \in DOMAIN store \ {task_id} |-> store[i]]
    /\ deleted' = deleted \cup {task_id}
    /\ resp' = [op |-> "delete_task", task_id |-> task_id,
                answer |-> [status_code |-> HTTP_204_NO_CONTENT]]
    /\ created' = [i \in DOMAIN created \ {task_id} |-> created[i]]
    /\ UNCHANGED <<next_id, now>>
    /\ before' = store /\ listed' = None /\ UNCHANGED pending

\* DELETE /tasks/{task_id}
delete_task(task_id) ==
    IF session_get(task_id) = None
    THEN /\ resp' = [op |-> "delete_task", task_id |-> task_id,
                     answer |-> [status_code |-> HTTP_404_NOT_FOUND, detail |-> NotFoundDetail(task_id)]]
         /\ before' = store /\ listed' = None /\ UNCHANGED pending
         /\ UNCHANGED <<store, next_id, now, deleted, created>>
    ELSE /\ store' = [i \in DOMAIN store \ {task_id} |-> store[i]]
         /\ deleted' = deleted \cup {task_id}
         /\ resp' = [op |-> "delete_task", task_id |-> task_id,
                     answer |-> [status_code |-> HTTP_204_NO_CONTENT]]
         /\ created' = [i \in DOMAIN created \ {task_id} |-> created[i]]
         /\ UNCHANGED <<next_id, now>>
         /\ before' = store /\ listed' = None /\ UNCHANGED pending

\* Query(0, ge=0) and Query(10, ge=1, le=100): the violated constraints of a query
ListQueryErrors(skip, limit) ==
    (IF skip < SkipMin THEN {<<"skip", "greater_than_equal">>} ELSE {})
    \cup (IF limit < LimitMin THEN {<<"limit", "greater_than_equal">>} ELSE {})
    \cup (IF limit > LimitMax THEN {<<"limit", "less_than_equal">>} ELSE {})

\* the where clause on status without the one on priority
MatchesStatusOnly(task, status_filter, priority_filter) ==
    TruthyStr(status_filter) => task.status = status_filter

\* the where clauses: a filter is applied when it is truthy
Matches(task, status_filter, priority_filter) ==
    /\ TruthyStr(status_filter) => task.status = status_filter
    /\ TruthyStr(priority_filter) => task.priority = priority_filter

\* the ids of the rows that query and total_query select
Selected(status_filter, priority_filter) ==
    {i \in DOMAIN store : Matches(store[i], status_filter, priority_filter)}

RECURSIVE Orders(_)
\* the sequences that hold each id of the set once
Orders(ids) ==
    IF ids = {} THEN {<< >>}
    ELSE UNION {{<<i>> \o o : o \in Orders(ids \ {i})} : i \in ids}

\* query.offset(skip).limit(limit) of a result in the order o
Page(o, skip, limit) ==
    [k \in 1..(IF Len(o) - skip < 0 THEN 0
               ELSE IF Len(o) - skip < limit THEN Len(o) - skip ELSE limit) |->
        TaskResponse(store[o[skip + k]])]

\* the page counted from 0
PageNumberFromZero(skip, limit) == skip \div limit

\* page=(skip // limit) + 1
PageNumber(skip, limit) == (skip \div limit) + 1

\* TaskListResponse(tasks=tasks, total=total, page=..., size=limit), sent with 200
TaskListResponse(tasks, total, skip, limit) ==
    [status_code |-> HTTP_200_OK,
     body |-> [tasks |-> tasks,
               total |-> total,
               page |-> PageNumber(skip, limit),
               size |-> limit]]

\* GET /tasks/ handled with no other request in between: the count query and
\* the page query see the same table.  The select has no ORDER BY, so the rows
\* come in an order the engine chooses.  remember tells whether the call that
\* was answered just before is kept in listed.
list_tasks_call(skip, limit, status_filter, priority_filter, remember) ==
    /\ IF ListQueryErrors(skip, limit) # {}
       THEN resp' = [op |-> "list_tasks", skip |-> skip, limit |-> limit,
                     status_filter |-> status_filter, priority_filter |-> priority_filter,
                     answer |-> validation_exception_handler(ListQueryErrors(skip, limit))]
       ELSE LET total == Cardinality(Selected(status_filter, priority_filter))
            IN  \E o \in Orders(Selected(status_filter, priority_filter)) :
                    resp' = [op |-> "list_tasks", skip |-> skip, limit |-> limit,
                             status_filter |-> status_filter, priority_filter |-> priority_filter,
                             answer |-> TaskListResponse(Page(o, skip, limit), total, skip, limit)]
    /\ listed' = IF remember THEN Some(resp) ELSE None
    /\ before' = store
    /\ UNCHANGED <<store, next_id, now, deleted, created, pending>>

\* GET /tasks/
list_tasks(skip, limit, status_filter, priority_filter) ==
    list_tasks_call(skip, limit, status_filter, priority_filter, FALSE)

\* GET /tasks/ sent again right after a list call was answered 200: with the
\* same query, or, when the page answered was full, with the skip moved on by
\* the limit
list_tasks_again(next_page) ==
    /\ resp.op = "list_tasks"
    /\ resp.answer.status_code = HTTP_200_OK
    /\ next_page => Len(resp.answer.body.tasks) = resp.limit
    /\ list_tasks_call(IF next_page THEN resp.skip + resp.limit ELSE resp.skip,
                       resp.limit, resp.status_filter, resp.priority_filter, TRUE)

\* GET /tasks/ up to the count query: total = len(session.exec(total_query).all())
list_tasks_count(skip, limit, status_filter, priority_filter) ==
    /\ pending = None
    /\ IF ListQueryErrors(skip, limit) # {}
       THEN /\ resp' = [op |-> "list_tasks", skip |-> skip, limit |-> limit,
                        status_filter |-> status_filter, priority_filter |-> priority_filter,
                        answer |-> validation_exception_handler(ListQueryErrors(skip, limit))]
            /\ UNCHANGED pending
       ELSE /\ pending' = Some([skip |-> skip, limit |-> limit,
                                status_filter |-> status_filter,
                                priority_filter |-> priority_filter,
                                total |-> Cardinality(Selected(status_filter, priority_filter))])
            /\ UNCHANGED resp
    /\ listed' = None
    /\ before' = store
    /\ UNCHANGED <<store, next_id, now, deleted, created>>

\* GET /tasks/ from the page query on: tasks = session.exec(query).all() reads
\* the table as it is now, the total is the one counted before
list_tasks_page ==
    /\ pending # None
    /\ LET q == Val(pending)
       IN  \E o \in Orders(Selected(q.status_filter, q.priority_filter)) :
               resp' = [op |-> "list_tasks", skip |-> q.skip, limit |-> q.limit,
                        status_filter |-> q.status_filter,
                        priority_filter |-> q.priority_filter,
                        answer |-> TaskListResponse(Page(o, q.skip, q.limit), q.total,
                                                    q.skip, q.limit)]
    /\ pending' = None
    /\ listed' = None
    /\ before' = store
    /\ UNCHANGED <<store, next_id, now, deleted, created>>

---------------------------------------------------------------------------
(* Direct calls of the enrichment client *)

call_fetch_external_data(external_id, upstream) ==
    /\ resp' = [op |-> "fetch_external_data", external_id |-> external_id,
                upstream |-> upstream, result |-> fetch_external_data(external_id, upstream)]
    /\ before' = store /\ listed' = None /\ UNCHANGED pending
    /\ UNCHANGED <<store, next_id, now, deleted, created>>

call_create_external_resource(upstream) ==
    /\ resp' = [op |-> "create_external_resource",
                upstream |-> upstream, result |-> create_external_resource(upstream)]
    /\ before' = store /\ listed' = None /\ UNCHANGED pending
    /\ UNCHANGED <<store, next_id, now, deleted, created>>

call_fetch_external_data_list(upstream) ==
    /\ resp' = [op |-> "fetch_external_data_list",
                upstream |-> upstream, result |-> fetch_external_data_list(upstream)]
    /\ before' = store /\ listed' = None /\ UNCHANGED pending
    /\ UNCHANGED <<store, next_id, now, deleted, created>>

---------------------------------------------------------------------------
(* The exception handler of the enrichment failures: utils/exception_handlers.py *)

\* the ExternalAPIException objects: a message, and the status code of a bad
\* upstream answer, of a timeout (408), of a transport failure (502) or of
\* another failure (500), or None when the exception is built without one
ExceptionMessages == {"External API is down", "Resource not found"}

ExceptionStatusCodes ==
    {None} \cup {Some(c) : c \in {c \in UpstreamStatuses : c >= 400} \cup {408, 500, 502}}

ExternalAPIExceptions ==
    {[message |-> m, status_code |-> c] : m \in ExceptionMessages, c \in ExceptionStatusCodes}

\* the handler with 500 where the exception has no status code
external_api_exception_handler_or_500(exc) ==
    [status_code |-> IF Truthy(exc.status_code) THEN Val(exc.status_code)
                     ELSE HTTP_500_INTERNAL_SERVER_ERROR,
     detail |-> exc.message,
     error_code |-> "EXTERNAL_API_ERROR",
     timestamp |-> None]

\* external_api_exception_handler: exc.status_code or 502, the message as detail
external_api_exception_handler(exc) ==
    [status_code |-> IF Truthy(exc.status_code) THEN Val(exc.status_code)
                     ELSE HTTP_502_BAD_GATEWAY,
     detail |-> exc.message,
     error_code |-> "EXTERNAL_API_ERROR",
     timestamp |-> None]

\* an ExternalAPIException leaves a route and the application hands it to the
\* handler registered for its class
call_external_api_exception_handler(exc) ==
    /\ resp' = [op |-> "external_api_exception_handler", exc |-> exc,
                answer |-> external_api_exception_handler(exc)]
    /\ before' = store /\ listed' = None /\ UNCHANGED pending
    /\ UNCHANGED <<store, next_id, now, deleted, created>>

---------------------------------------------------------------------------
(* The specification *)

Init ==
    /\ store = << >>
    /\ next_id = 1
    /\ now = 0
    /\ resp = [op |-> "none"]
    /\ deleted = {}
    /\ created = << >>
    /\ before = << >>
    /\ pending = None
    /\ listed = None

\* the upstream answers one request only when the handler makes one
UpstreamsFor(body) ==
    IF TaskCreateErrors(body) = {} /\ EnrichmentWanted(TaskCreateSchema(body))
    THEN CreateUpstreams ELSE {NoRequest}

Next ==
    \/ \E body \in CreateBodies : \E upstream \in UpstreamsFor(body) : create_task(body, upstream)
    \/ \E task_id \in TaskIds : get_task(task_id)
    \/ \E task_id \in TaskIds, body \in UpdateBodies : update_task(task_id, body)
    \/ \E task_id \in TaskIds : delete_task(task_id)

Spec == Init /\ [][Next]_vars

\* the task handlers together with the listing
ListNext ==
    \/ Next
    \/ \E q \in ListQueries : list_tasks(q.skip, q.limit, q.status_filter, q.priority_filter)

ListSpec == Init /\ [][ListNext]_vars

\* the task handlers, the listing, and the listing sent again
OrderNext ==
    \/ ListNext
    \/ \E next_page \in BOOLEAN : list_tasks_again(next_page)

OrderSpec == Init /\ [][OrderNext]_vars

\* the task handlers called by other clients while a list request is between
\* its count query and its page query
RaceNext ==
    \/ Next
    \/ \E q \in ListQueries :
           list_tasks_count(q.skip, q.limit, q.status_filter, q.priority_filter)
    \/ list_tasks_page

RaceSpec == Init /\ [][RaceNext]_vars

\* the listing called with the paging queries
PageNext ==
    \E q \in PageQueries : list_tasks(q.skip, q.limit, q.status_filter, q.priority_filter)

PageSpec == Init /\ [][PageNext]_vars

\* the enrichment client called on its own, and its failures handled
ClientNext ==
    \/ \E external_id \in ExternalIds, upstream \in Upstreams :
           call_fetch_external_data(external_id, upstream)
    \/ \E upstream \in Upstreams : call_create_external_resource(upstream)
    \/ \E upstream \in Upstreams : call_fetch_external_data_list(upstream)
    \/ \E exc \in ExternalAPIExceptions : call_external_api_exception_handler(exc)

ClientSpec == Init /\ [][ClientNext]_vars

---------------------------------------------------------------------------
(* Properties *)

ClientOps == {"fetch_external_data", "create_external_resource", "fetch_external_data_list"}

\* the task that an answer with a body is about, as stored
Stored(answer) == store[Val(answer.body.id)]

\* C1: update_task with a valid body on an id that is stored is answered 200,
\* every field of the body is overwritten in the stored task with the value sent,
\* updated_at is the current time, and the task answered is the stored task.
C1_UpdateOfStoredTaskSucceeds ==
    (/\ resp.op = "update_task"
     /\ resp.request \in ValidUpdateBodies
     /\ resp.task_id \in DOMAIN store)
    => /\ resp.answer.status_code = 200
       /\ \A f \in DOMAIN resp.request \cap TaskUpdateFields :
              store[resp.task_id][f] = resp.request[f]
       /\ store[resp.task_id].updated_at = now
       /\ resp.answer.body = TaskResponse(store[resp.task_id])

\* C2: when the upstream resource answers a client call with a status >= 400,
\* the client raises a failure that carries that same status (404 for 404).
C2_UpstreamStatusCarried ==
    (/\ resp.op \in ClientOps
     /\ resp.upstream.kind = "response"
     /\ resp.upstream.status_code >= 400)
    => /\ resp.result.raised
       /\ resp.result.cls = "ExternalAPIException"
       /\ resp.result.status_code = Some(resp.upstream.status_code)

C4_CreateSurvivesEnrichmentFailure ==
    (/\ resp.op = "create_task"
     /\ resp.request \in ValidCreateBodies
     /\ resp.enrich # None
     /\ Val(resp.enrich).result.raised)
    => /\ resp.answer.status_code = 201
       /\ Val(resp.answer.body.id) \notin DOMAIN before
       /\ DOMAIN store = DOMAIN before \cup {Val(resp.answer.body.id)}
       /\ \A i \in DOMAIN before : store[i] = before[i]
       /\ Stored(resp.answer).external_id = resp.request.external_id
       /\ resp.answer.body.external_id = resp.request.external_id
       /\ Stored(resp.answer).external_api_data = None

\* a task was created although its enrichment call timed out
C4_Witness ==
    /\ resp.op = "create_task"
    /\ resp.enrich # None
    /\ Val(resp.enrich).result.raised
    /\ Val(resp.enrich).result.status_code = Some(408)
    /\ resp.answer.status_code = 201
    /\ Stored(resp.answer).external_id = Some(1)
    /\ Stored(resp.answer).external_api_data = None

\* C5: create_task calls the enrichment client exactly when the body carries an
\* external_id (any integer, 0 included), and when the call succeeds the stored
\* external_api_data is the serialized payload the call returned.
C5_EnrichmentIffExternalIdPresent ==
    (resp.op = "create_task" /\ resp.answer.status_code = 201)
    => /\ (resp.enrich # None)
          <=> ("external_id" \in DOMAIN resp.request /\ resp.request.external_id # None)
       /\ (resp.enrich # None /\ ~Val(resp.enrich).result.raised)
          => Stored(resp.answer).external_api_data
                 = Some(PyStr(Val(Val(resp.enrich).result.value)))

\* C6: once delete_task(id) was answered 204, no task with that id is stored
\* again, and every later get_task(id) is answered 404.
C6_DeletedStaysNotFound ==
    /\ deleted \cap DOMAIN store = {}
    /\ (resp.op = "get_task" /\ resp.task_id \in deleted)
       => resp.answer.status_code = 404

\* get_task of a deleted id was answered 404 while another task, created
\* later, is stored
C6_Witness ==
    /\ resp.op = "get_task"
    /\ resp.task_id \in deleted
    /\ resp.answer.status_code = 404
    /\ \E i \in DOMAIN store : i > resp.task_id

\* the value a create body supplies for a field, or the default of the field
Supplied(request, f, default) == IF f \in DOMAIN request THEN request[f] ELSE default

\* C7: create_task with a body that violates a field constraint is answered 422
\* with error_code VALIDATION_ERROR and leaves the store unchanged, and every
\* task a later list_tasks shows is a stored task with a title of 1 to 255
\* characters.
C7_InvalidCreateNotPersisted ==
    /\ (resp.op = "create_task" /\ resp.request \in InvalidCreateBodies)
       => /\ resp.answer.status_code = 422
          /\ resp.answer.error_code = "VALIDATION_ERROR"
          /\ resp.answer.detail # {}
          /\ store = before
    /\ (resp.op = "list_tasks" /\ resp.answer.status_code = 200)
       => \A k \in DOMAIN resp.answer.body.tasks :
             LET task == resp.answer.body.tasks[k]
             IN  /\ Val(task.id) \in DOMAIN store
                 /\ task = TaskResponse(store[Val(task.id)])
                 /\ Len(Val(task.title)) >= 1
                 /\ Len(Val(task.title)) <= 255

\* a create with a title of 256 characters was answered 422 while a task is
\* stored
C7_Witness ==
    /\ resp.op = "create_task"
    /\ resp.request = [title |-> Some(Title256)]
    /\ resp.answer.status_code = 422
    /\ resp.answer.error_code = "VALIDATION_ERROR"
    /\ DOMAIN store # {}

\* C8: get_task of an id that create_task returned, with no update or delete of
\* the id in between, answers the title, description, status, priority, user_id
\* and external_id sent to create_task (pending and medium when status and
\* priority were not sent) and the id and timestamps create_task answered.
C8_GetReturnsWhatCreateWasSent ==
    (resp.op = "get_task" /\ resp.task_id \in DOMAIN created)
    => LET request == created[resp.task_id].request
           answered == created[resp.task_id].body
       IN  /\ resp.answer.status_code = 200
           /\ resp.answer.body.title = request.title
           /\ resp.answer.body.description = Supplied(request, "description", None)
           /\ resp.answer.body.status = Supplied(request, "status", Some("pending"))
           /\ resp.answer.body.priority = Supplied(request, "priority", Some("medium"))
           /\ resp.answer.body.user_id = Supplied(request, "user_id", None)
           /\ resp.answer.body.external_id = Supplied(request, "external_id", None)
           /\ resp.answer.body.id = Some(resp.task_id)
           /\ resp.answer.body.id = answered.id
           /\ resp.answer.body.created_at = answered.created_at
           /\ resp.answer.body.updated_at = answered.updated_at

\* get_task answered a task created with every field sent, after a failed
\* enrichment or not
C8_Witness ==
    /\ resp.op = "get_task"
    /\ resp.task_id \in DOMAIN created
    /\ "external_id" \in DOMAIN created[resp.task_id].request
    /\ resp.answer.status_code = 200
    /\ resp.answer.body.external_id = Some(1)
    /\ resp.answer.body.user_id = Some("u1")

Min(a, b) == IF a < b THEN a ELSE b
Max(a, b) == IF a > b THEN a ELSE b

\* a filter that was sent, and a filter that was sent with a value that is not empty
Provided(filter) == filter # None
ProvidedNotEmpty(filter) == filter # None /\ filter # Some("")

\* the answer of the last list call counts, before pagination, the stored tasks
\* that have the status and the priority of the filters that count as sent,
\* shows only such tasks, and shows min(limit, max(0, total - skip)) of them
ListCountsFiltered(Sent(_)) ==
    (resp.op = "list_tasks" /\ resp.answer.status_code = 200)
    => LET wanted == {i \in DOMAIN store :
                         /\ Sent(resp.status_filter) => store[i].status = resp.status_filter
                         /\ Sent(resp.priority_filter) => store[i].priority = resp.priority_filter}
           body == resp.answer.body
       IN  /\ body.total = Cardinality(wanted)
           /\ \A k \in DOMAIN body.tasks : Val(body.tasks[k].id) \in wanted
           /\ Len(body.tasks) = Min(resp.limit, Max(0, body.total - resp.skip))

C12_SizeAndPage ==
    (resp.op = "list_tasks" /\ resp.skip >= 0 /\ resp.limit >= 1 /\ resp.limit <= 100)
    => /\ resp.answer.status_code = 200
       /\ resp.answer.body.size = resp.limit
       /\ (resp.answer.body.page - 1) * resp.limit <= resp.skip
       /\ resp.skip < resp.answer.body.page * resp.limit
       /\ resp.skip = 0 => resp.answer.body.page = 1
       /\ resp.skip = resp.limit => resp.answer.body.page = 2

\* a list with a skip that is no multiple of the limit was answered with the
\* page the skip falls in
C12_Witness ==
    /\ resp.op = "list_tasks"
    /\ resp.skip = 11
    /\ resp.limit = 5
    /\ resp.answer.status_code = 200
    /\ resp.answer.body.page = 3
    /\ resp.answer.body.size = 5

\* C13: a failure that is no validation, not-found or enrichment failure and is
\* raised while a task operation is handled (here the TypeError of the timestamp
\* line of update_task, raised for every valid update of a stored task) is
\* answered 500 with a body that has error_code "INTERNAL_ERROR" and a detail.
C13_InternalFailureAnsweredInternalError ==
    (/\ resp.op = "update_task"
     /\ resp.request \in ValidUpdateBodies
     /\ resp.task_id \in DOMAIN before
     /\ updated_at_class_call.raised)
    => /\ resp.answer.status_code = 500
       /\ "detail" \in DOMAIN resp.answer
       /\ "error_code" \in DOMAIN resp.answer
       /\ resp.answer.error_code = "INTERNAL_ERROR"

\* C14: the task that create_task answers for a valid body has created_at equal
\* to updated_at.
C14_CreatedAtEqualsUpdatedAt ==
    (/\ resp.op = "create_task"
     /\ resp.request \in ValidCreateBodies
     /\ resp.answer.status_code = 201)
    => resp.answer.body.created_at = resp.answer.body.updated_at

\* C15: no two stored tasks have the same id, the id that create_task answers
\* is the id of no task that was stored when the call came, and no call changes
\* the id of a stored task (an update whose payload carries an id among them).
C15_IdsUniqueAndImmutable ==
    /\ \A i, j \in DOMAIN store : store[i].id = store[j].id => i = j
    /\ \A i \in DOMAIN store : store[i].id = Some(i)
    /\ (resp.op = "create_task" /\ resp.answer.status_code = 201)
       => /\ resp.answer.body.id # None
          /\ \A i \in DOMAIN before : before[i].id # resp.answer.body.id
          /\ \A i \in DOMAIN before : i \in DOMAIN store /\ store[i] = before[i]
    /\ \A i \in DOMAIN before \cap DOMAIN store : store[i].id = before[i].id

\* an update whose payload carries an id was handled for a stored task, which
\* has kept its id, while another task is stored
C15_Witness ==
    /\ resp.op = "update_task"
    /\ "id" \in DOMAIN resp.request
    /\ resp.request.id = Some(9)
    /\ resp.task_id \in DOMAIN store
    /\ store[resp.task_id].id = Some(resp.task_id)
    /\ \E i \in DOMAIN store : i # resp.task_id

\* C16: every stored task has created_at <= updated_at, and no call (update,
\* get, list or delete) changes the created_at of a task that stays stored: it
\* stays the one the create_task that stored the task answered.
C16_CreatedAtFixedAndNotAfterUpdatedAt ==
    /\ \A i \in DOMAIN store : store[i].created_at <= store[i].updated_at
    /\ \A i \in DOMAIN before \cap DOMAIN store :
           store[i].created_at = before[i].created_at
    /\ \A i \in DOMAIN created \cap DOMAIN store :
           store[i].created_at = created[i].body.created_at
    /\ (resp.op = "get_task" /\ resp.answer.status_code = 200)
       => resp.answer.body.created_at = store[resp.task_id].created_at

\* an update was handled for a stored task whose updated_at is later than its
\* created_at
C16_Witness ==
    /\ resp.op = "update_task"
    /\ resp.request \in ValidUpdateBodies
    /\ resp.task_id \in DOMAIN store
    /\ store[resp.task_id].created_at < store[resp.task_id].updated_at

\* the ids of the tasks that a list answer shows
ShownIds(call) == {Val(call.answer.body.tasks[k].id) : k \in DOMAIN call.answer.body.tasks}

\* C17: two list_tasks calls with the same skip, limit and filters and no write
\* between them are answered with the same sequence of tasks, and the page that
\* follows a page (skip moved on by limit, store unchanged) repeats no task of
\* that page and, together with a first page, omits no matching task that the
\* two pages have room for.
C17_ListOrderStable ==
    (resp.op = "list_tasks" /\ resp.answer.status_code = 200 /\ listed # None)
    => LET first == Val(listed)
           same_filters == /\ resp.limit = first.limit
                           /\ resp.status_filter = first.status_filter
                           /\ resp.priority_filter = first.priority_filter
       IN  /\ (same_filters /\ resp.skip = first.skip)
              => resp.answer.body.tasks = first.answer.body.tasks
           /\ (same_filters /\ resp.skip = first.skip + first.limit)
              => /\ ShownIds(resp) \cap ShownIds(first) = {}
                 /\ first.skip = 0
                    => Cardinality(ShownIds(resp) \cup ShownIds(first))
                           = Min(resp.answer.body.total, 2 * resp.limit)

\* the largest length each str field of a create body may have
MaxLengthOf ==
    [title |-> 255, description |-> 1000, status |-> 50, priority |-> 20, user_id |-> 100]

\* the constraints a create body violates, each as the field and the rule: the
\* title is required, title, status and priority are no null, the title has at
\* least 1 character and no str field more characters than its largest length
ViolatedConstraints(body) ==
    {<<f, "missing">> : f \in {"title"} \ DOMAIN body}
    \cup {<<f, "string_type">> :
             f \in {g \in {"title", "status", "priority"} \cap DOMAIN body : body[g] = None}}
    \cup {<<f, "string_too_short">> :
             f \in {g \in {"title"} \cap DOMAIN body :
                       body[g] # None /\ Len(Val(body[g])) < 1}}
    \cup {<<f, "string_too_long">> :
             f \in {g \in DOMAIN MaxLengthOf \cap DOMAIN body :
                       body[g] # None /\ Len(Val(body[g])) > MaxLengthOf[g]}}

\* C18: a create body that violates constraints (several at once among them) is
\* answered with the list of every violation, each with the field it is at and
\* the rule it breaks: the violations listed are exactly the constraints the
\* body violates.
C18_EveryViolationListed ==
    (resp.op = "create_task" /\ ViolatedConstraints(resp.request) # {})
    => /\ resp.answer.status_code = 422
       /\ resp.answer.detail = ViolatedConstraints(resp.request)

\* a create body with an empty title and a status of 51 characters was answered
\* with the two violations
C18_Witness ==
    /\ resp.op = "create_task"
    /\ resp.request = [title |-> Some(""), status |-> Some(Status51), external_id |-> Some(1)]
    /\ resp.answer.status_code = 422
    /\ resp.answer.detail = {<<"title", "string_too_short">>, <<"status", "string_too_long">>}

\* C19: an enrichment failure handed to the exception handler is answered with
\* error_code "EXTERNAL_API_ERROR", the failure's message as detail, and the
\* failure's own status code, or 502 when the failure has no status code.
C19_SurfacedEnrichmentFailure ==
    resp.op = "external_api_exception_handler"
    => /\ resp.answer.error_code = "EXTERNAL_API_ERROR"
       /\ resp.answer.detail = resp.exc.message
       /\ resp.exc.status_code # None => resp.answer.status_code = Val(resp.exc.status_code)
       /\ resp.exc.status_code = None => resp.answer.status_code = 502

\* a failure built without a status code was answered 502 with its message
C19_Witness ==
    /\ resp.op = "external_api_exception_handler"
    /\ resp.exc.status_code = None
    /\ resp.exc.message = "External API is down"
    /\ resp.answer.status_code = 502
    /\ resp.answer.detail = "External API is down"
    /\ resp.answer.error_code = "EXTERNAL_API_ERROR"

\* C20: every answer of list_tasks has a total that is at least the number of
\* tasks it shows, also when create_task and delete_task calls of other clients
\* commit between the count query and the page query of the list request.
C20_TotalAtLeastTasksShown ==
    (resp.op = "list_tasks" /\ resp.answer.status_code = 200)
    => resp.answer.body.total >= Len(resp.answer.body.tasks)

\* C21: an update_task that is answered 404 or 500 leaves the store as the
\* request found it: the values that were assigned to the loaded row before the
\* failure are not stored, and a get_task of a task that was created and only
\* had failed updates since answers the task as create_task answered it.
C21_FailedUpdateLeavesRecord ==
    /\ (resp.op = "update_task" /\ resp.answer.status_code \in {404, 500})
       => store = before
    /\ (resp.op = "update_task" /\ resp.answer.status_code = 500)
       => /\ resp.task_id \in DOMAIN store
          /\ resp.task_id \in DOMAIN created
             => TaskResponse(store[resp.task_id]) = created[resp.task_id].body
    /\ (resp.op = "get_task" /\ resp.task_id \in DOMAIN created)
       => resp.answer.body = created[resp.task_id].body

\* an update that carries a new title and a new priority for a stored task was
\* answered 500, and the task stored has the title and the priority it was
\* created with
C21_Witness ==
    /\ resp.op = "update_task"
    /\ resp.request = [title |-> Some("c"), priority |-> Some("low")]
    /\ resp.answer.status_code = 500
    /\ resp.task_id \in DOMAIN store
    /\ store[resp.task_id].title = Some("a")
    /\ store[resp.task_id].priority = Some("medium")

====
